---- MODULE Spec2Model ----
(***************************************************************************)
(* Model of src/main.cpp: the random number generators (Poisson,           *)
(* Bernoulli, Geometric, Finite) and the GeneratorFactory that validates   *)
(* a request and constructs one of them.                                   *)
(*                                                                         *)
(* A double is modelled as an exact fixed-point number i + f / FracBase    *)
(* with 0 <= f < FracBase; one unit of f (a "tick") is 5e-10, so that the  *)
(* factory's tolerance 1e-9 is 2 ticks and the values 5e-10 and 2e-9 are   *)
(* 1 and 4 ticks.  The rounding errors of the code's sums of doubles       *)
(* (about 1e-16) are far below one tick and are not modelled.              *)
(*                                                                         *)
(* std::default_random_engine is default-constructed in every generator:   *)
(* all engines start in the same state and produce the same sequence.      *)
(* Which sequence that is, is implementation-defined; the variable stream  *)
(* holds it: stream[k] is the k-th canonical uniform variate a             *)
(* default-constructed engine yields.  It is chosen in Init and never      *)
(* changes.  An object's field generator counts the variates its own       *)
(* engine has produced so far, which determines the engine's state.        *)
(***************************************************************************)
EXTENDS Integers, Sequences, FiniteSets, TLC

VARIABLES
    heap,    \* the generator objects the caller holds, in order of creation
    made,    \* made[g]: the createGenerator call that returned heap[g]
    outs,    \* outs[g]: the samples heap[g].Generate() has returned so far
    stream,  \* the output sequence of a default-constructed engine
    call,    \* the last call made by the caller, with its arguments
    ret,     \* what that call returned
    status   \* "running", or "aborted" once the process was terminated

vars == <<heap, made, outs, stream, call, ret, status>>

(***************************************************************************)
(* Bounds of the model.                                                    *)
(***************************************************************************)
MaxGens == 2     \* generator objects alive at once
MaxDraws == 2    \* Generate() calls per object (the length of stream)
MaxLen == 2      \* longest values / probabilities vector the factory is given

(***************************************************************************)
(* double arithmetic, exact.                                               *)
(***************************************************************************)
FracBase == 2 * 10^9

Real(i, f) == [i |-> i, f |-> f]

Zero == Real(0, 0)

One == Real(1, 0)

\* k / 10, for k >= 0
Tenths(k) == Real(k \div 10, (k % 10) * (FracBase \div 10))

Add(a, b) ==
    IF a.f >= FracBase - b.f
    THEN Real(a.i + b.i + 1, a.f - (FracBase - b.f))
    ELSE Real(a.i + b.i, a.f + b.f)

Sub(a, b) ==
    IF a.f >= b.f
    THEN Real(a.i - b.i, a.f - b.f)
    ELSE Real(a.i - b.i - 1, a.f + (FracBase - b.f))

Less(a, b) == a.i < b.i \/ (a.i = b.i /\ a.f < b.f)

LessEq(a, b) == ~Less(b, a)

Abs(x) == IF Less(x, Zero) THEN Sub(Zero, x) ELSE x

\* x + n * 5e-10, for a small integer n of either sign
Ticks(x, n) == IF n >= 0 THEN Add(x, Real(0, n)) ELSE Sub(x, Real(0, -n))

Range(s) == {s[i] : i \in DOMAIN s}

SeqsUpTo(S, n) == UNION {[1..k -> S] : k \in 0..n}

(***************************************************************************)
(* The standard library's random number facilities, as far as the code     *)
(* uses them.                                                              *)
(***************************************************************************)
\* A default-constructed std::default_random_engine: no variate drawn yet.
DefaultEngine == 0

\* std::poisson_distribution<int>(mean) requires 0 < mean; constructing it
\* with any other mean is undefined behaviour.
poisson_precondition(mean) == Less(Zero, mean)

\* The k-th variate std::poisson_distribution<int>(mean) draws from a
\* default-constructed engine: a fixed function of mean and k, left symbolic.
poisson_distribution(mean, k) == [variate |-> "poisson", mean |-> mean, k |-> k]

\* The same for std::geometric_distribution<int>(p).
geometric_distribution(p, k) == [variate |-> "geometric", p |-> p, k |-> k]

\* std::bernoulli_distribution(p) on the canonical variate u: true iff u < p.
bernoulli_distribution(p, u) == Less(u, p)

(***************************************************************************)
(* The generator classes.                                                  *)
(***************************************************************************)
nullptr == [class |-> "nullptr"]

PoissonGenerator(lambda) ==
    [class |-> "PoissonGenerator", generator |-> DefaultEngine,
     distribution |-> [mean |-> lambda]]

BernoulliGenerator(th) ==
    [class |-> "BernoulliGenerator", generator |-> DefaultEngine,
     distribution |-> [p |-> th]]

GeometricGenerator(th) ==
    [class |-> "GeometricGenerator", generator |-> DefaultEngine,
     distribution |-> [p |-> th]]

\* The constructor's loop: probs[i] += probs[i - 1] for i = 1 .. size - 1
\* (here the vector is indexed from 1, so i runs from 2).
RECURSIVE PrefixSums(_, _)
PrefixSums(probs, i) ==
    IF i > Len(probs)
    THEN probs
    ELSE PrefixSums([probs EXCEPT ![i] = Add(probs[i], probs[i - 1])], i + 1)

\* Mutant: the constructor keeps the probabilities as given.
FiniteGenerator_NoPrefixSums(v, p) ==
    [class |-> "FiniteGenerator", generator |-> DefaultEngine,
     distribution |-> [a |-> Zero, b |-> One],
     values |-> v, probs |-> p]

FiniteGenerator(v, p) ==
    [class |-> "FiniteGenerator", generator |-> DefaultEngine,
     distribution |-> [a |-> Zero, b |-> One],
     values |-> v, probs |-> PrefixSums(p, 2)]

\* PoissonGenerator::Generate: the object's next variate.
PoissonGenerate(self) ==
    poisson_distribution(self.distribution.mean, self.generator + 1)

\* BernoulliGenerator::Generate: the bool converted to double.
BernoulliGenerate(self, u) ==
    IF bernoulli_distribution(self.distribution.p, u) THEN One ELSE Zero

GeometricGenerate(self) ==
    geometric_distribution(self.distribution.p, self.generator + 1)

\* Mutant: the lower bound of the interval test is inclusive (val >= probs[i]).
RECURSIVE FiniteScan_InclusiveLower(_, _, _)
FiniteScan_InclusiveLower(self, val, i) ==
    IF i >= Len(self.probs)
    THEN Len(self.values)
    ELSE IF LessEq(self.probs[i], val) /\ LessEq(val, self.probs[i + 1])
         THEN i
         ELSE FiniteScan_InclusiveLower(self, val, i + 1)

\* The loop of FiniteGenerator::Generate from index i on (indexed from 1:
\* the code's i < probs.size() - 1 is i < Len(probs) here): the index of the
\* element of values that is returned.
RECURSIVE FiniteScan(_, _, _)
FiniteScan(self, val, i) ==
    IF i >= Len(self.probs)
    THEN Len(self.values)
    ELSE IF Less(self.probs[i], val) /\ LessEq(val, self.probs[i + 1])
         THEN i
         ELSE FiniteScan(self, val, i + 1)

\* Mutant: the matching entry of probs is returned instead of that of values.
FiniteGenerate_ReturnsProb(self, val) == self.probs[FiniteScan(self, val, 1)]

\* FiniteGenerator::Generate with val the uniform variate drawn from [0, 1].
FiniteGenerate(self, val) == self.values[FiniteScan(self, val, 1)]

\* TRandomNumberGenerator::Generate, dispatched on the object's class; u is
\* the canonical variate the object's engine yields in this call.
Generate(self, u) ==
    CASE self.class = "PoissonGenerator" -> PoissonGenerate(self)
      [] self.class = "BernoulliGenerator" -> BernoulliGenerate(self, u)
      [] self.class = "GeometricGenerator" -> GeometricGenerate(self)
      [] self.class = "FiniteGenerator" -> FiniteGenerate(self, u)

\* Mutant: the engines of the objects of h past the first are seeded
\* differently from one another.
Draw_SeededByObject(h, g) == stream[((h[g].generator + g - 1) % Len(stream)) + 1]

\* The canonical variate the engine of h[g] yields next.
Draw(h, g) == stream[h[g].generator + 1]

\* Mutant: one engine is shared by all objects.
Advance_SharedEngine(h, g) ==
    [k \in DOMAIN h |-> [h[k] EXCEPT !.generator = @ + 1]]

\* The state of the objects after heap[g]'s engine has produced a variate.
Advance(h, g) == [h EXCEPT ![g].generator = @ + 1]

(***************************************************************************)
(* GeneratorFactory.                                                       *)
(***************************************************************************)
RECURSIVE vector_sum_loop(_, _, _)
vector_sum_loop(v, i, res) ==
    IF i > Len(v) THEN res ELSE vector_sum_loop(v, i + 1, Add(res, v[i]))

vector_sum(v) == vector_sum_loop(v, 1, Zero)

\* Mutant: the tolerance is 1e-8.
Tolerance_Loose == Real(0, 20)

\* The literal 1e-9 of the factory's check.
Tolerance == Real(0, 2)

\* The lambda of std::all_of.
InUnitInterval(p) == LessEq(Zero, p) /\ LessEq(p, One)

\* Mutant: the "geometric" branch constructs a GeometricGenerator.
createGenerator_TrueGeometric(name, param) ==
    IF name = "poisson"
    THEN PoissonGenerator(param)
    ELSE IF name = "bernoulli" /\ LessEq(Zero, param) /\ LessEq(param, One)
    THEN BernoulliGenerator(param)
    ELSE IF name = "geometric" /\ LessEq(Zero, param) /\ LessEq(param, One)
    THEN GeometricGenerator(param)
    ELSE nullptr

\* createGenerator(name, param): the object constructed, or nullptr.
createGenerator(name, param) ==
    IF name = "poisson"
    THEN PoissonGenerator(param)
    ELSE IF name = "bernoulli" /\ LessEq(Zero, param) /\ LessEq(param, One)
    THEN BernoulliGenerator(param)
    ELSE IF name = "geometric" /\ LessEq(Zero, param) /\ LessEq(param, One)
    THEN BernoulliGenerator(param)
    ELSE nullptr

\* Mutant: the lengths of values and probabilities are not compared.
createGeneratorFinite_NoLengthCheck(name, values, probabilities) ==
    IF /\ name = "finite"
       /\ Len(values) # 0
       /\ \A i \in DOMAIN probabilities : InUnitInterval(probabilities[i])
       /\ Less(Abs(Sub(vector_sum(probabilities), One)), Tolerance)
    THEN FiniteGenerator(values, probabilities)
    ELSE nullptr

\* createGenerator(name, values, probabilities).
createGeneratorFinite(name, values, probabilities) ==
    IF /\ name = "finite"
       /\ Len(values) # 0
       /\ Len(probabilities) = Len(values)
       /\ \A i \in DOMAIN probabilities : InUnitInterval(probabilities[i])
       /\ Less(Abs(Sub(vector_sum(probabilities), One)), Tolerance)
    THEN FiniteGenerator(values, probabilities)
    ELSE nullptr

\* Whether constructing obj violates a precondition of the standard library.
Undefined(obj) ==
    /\ obj.class = "PoissonGenerator"
    /\ ~poisson_precondition(obj.distribution.mean)

(***************************************************************************)
(* The caller: any sequence of factory calls and Generate() calls.         *)
(***************************************************************************)
\* The factory call c returns obj to the caller, who keeps it if it is not
\* nullptr.
Return(obj, c) ==
    /\ call' = c
    /\ IF obj = nullptr
       THEN /\ ret' = [gen |-> 0]
            /\ UNCHANGED <<heap, made, outs>>
       ELSE /\ ret' = [gen |-> Len(heap) + 1]
            /\ heap' = Append(heap, obj)
            /\ made' = Append(made, c)
            /\ outs' = Append(outs, <<>>)
    /\ UNCHANGED <<stream, status>>

\* The factory call c constructs obj in violation of a library precondition:
\* a build may go on as if nothing had happened (Return), or, with the
\* library's assertions enabled, terminate the process in the constructor.
Abort(obj, c) ==
    /\ Undefined(obj)
    /\ call' = c
    /\ ret' = [aborted |-> TRUE]
    /\ status' = "aborted"
    /\ UNCHANGED <<heap, made, outs, stream>>

CallCreateGenerator(name, param) ==
    /\ status = "running"
    /\ Len(heap) < MaxGens
    /\ LET c == [op |-> "createGenerator", name |-> name, param |-> param]
           obj == createGenerator(name, param)
       IN  \/ Return(obj, c)
           \/ Abort(obj, c)

CallCreateGeneratorFinite(name, values, probabilities) ==
    /\ status = "running"
    /\ Len(heap) < MaxGens
    /\ LET c == [op |-> "createGeneratorFinite", name |-> name,
                 values |-> values, probabilities |-> probabilities]
       IN  Return(createGeneratorFinite(name, values, probabilities), c)

CallGenerate(g) ==
    /\ status = "running"
    /\ heap[g].generator < Len(stream)
    /\ LET u == Draw(heap, g)
           sample == Generate(heap[g], u)
       IN  /\ heap' = Advance(heap, g)
           /\ outs' = [outs EXCEPT ![g] = Append(@, sample)]
           /\ call' = [op |-> "Generate", gen |-> g, u |-> u]
           /\ ret' = [sample |-> sample]
    /\ UNCHANGED <<made, stream, status>>

(***************************************************************************)
(* Inputs.                                                                 *)
(***************************************************************************)
Names == {"poisson", "bernoulli", "geometric", "finite", ""}

\* Parameters around the bounds 0 and 1 of the range checks.
ParamDomain ==
    {Real(-1, 0), Ticks(Zero, -1), Zero, Tenths(3), One, Ticks(One, 1), Real(3, 0)}

\* Probabilities: out of range on either side, the bounds, unequal ones, and
\* halves that miss 1/2 by one or three ticks, so that two of them sum to
\* 1 + d ticks for every d in -4 .. 4.
ProbDomain ==
    {Ticks(Zero, -1), Zero, Tenths(3), Tenths(7), One, Ticks(One, 1)}
    \cup {Ticks(Tenths(5), d) : d \in {-3, -1, 0, 1, 3}}

ValueDomain == {Real(1, 0), Real(2, 0)}

ValueSeqs == SeqsUpTo(ValueDomain, MaxLen)

ProbSeqs == SeqsUpTo(ProbDomain, MaxLen)

\* The uniform variates: 0, 1, and every cumulative probability that occurs,
\* with the points one tick above.
UDomain ==
    {Zero, One, Ticks(One, -1)}
    \cup UNION {{p, Ticks(p, 1)} : p \in {x \in ProbDomain : InUnitInterval(x)} \ {One}}

\* The inputs of the specification Spec.
MainNames == {"poisson", "bernoulli", "geometric", "finite"}

MainParams == {Zero, Tenths(3)}

MainTables ==
    {[values |-> <<Real(7, 0)>>, probabilities |-> <<One>>],
     [values |-> <<Real(1, 0), Real(2, 0)>>, probabilities |-> <<Tenths(3), Tenths(7)>>],
     [values |-> <<Real(1, 0), Real(2, 0)>>, probabilities |-> <<Tenths(3), Tenths(3)>>]}

\* The names given with a table.
MainTableNames == {"finite", "geometric"}

\* The two ends of the range of the uniform variate.
MainU == {Zero, One}

(***************************************************************************)
(* Specifications.                                                         *)
(***************************************************************************)
NoObjects ==
    /\ heap = <<>>
    /\ made = <<>>
    /\ outs = <<>>
    /\ call = [op |-> "none"]
    /\ ret = [none |-> TRUE]
    /\ status = "running"

\* The program: objects are created and sampled in any order.
Init == NoObjects /\ stream \in [1..MaxDraws -> MainU]

Next ==
    \/ \E name \in MainNames, param \in MainParams :
           CallCreateGenerator(name, param)
    \/ \E name \in MainTableNames, t \in MainTables :
           CallCreateGeneratorFinite(name, t.values, t.probabilities)
    \/ \E g \in 1..Len(heap) : CallGenerate(g)

Spec == Init /\ [][Next]_vars

\* The factory as a function: one call, with its arguments drawn from all of
\* the input sets.
InitFactory == NoObjects /\ stream = <<>>

NextFactory ==
    \/ /\ call.op = "none"
       /\ \E name \in Names, param \in ParamDomain :
              CallCreateGenerator(name, param)
    \/ /\ call.op = "none"
       /\ \E name \in Names, values \in ValueSeqs, probabilities \in ProbSeqs :
              CallCreateGeneratorFinite(name, values, probabilities)

SpecFactory == InitFactory /\ [][NextFactory]_vars

\* The finite generator as a function: one table, one uniform variate drawn
\* from all of UDomain.
InitSampling == NoObjects /\ stream \in [1..1 -> UDomain]

NextSampling ==
    \/ /\ call.op = "none"
       /\ \E values \in ValueSeqs, probabilities \in ProbSeqs :
              CallCreateGeneratorFinite("finite", values, probabilities)
    \/ \E g \in 1..Len(heap) : CallGenerate(g)

SpecSampling == InitSampling /\ [][NextSampling]_vars

(***************************************************************************)
(* Definitions the properties are stated with.                             *)
(***************************************************************************)
\* 1e-9, as the properties state it.
Eps == Real(0, 2)

\* The sum of a vector of doubles.
RECURSIVE SumOf(_)
SumOf(p) == IF p = <<>> THEN Zero ELSE Add(Head(p), SumOf(Tail(p)))

\* cumulative[k] of a probability table: the sum of its first k entries.
Cumulative(p, k) == SumOf(SubSeq(p, 1, k))

IsFinite(g) == heap[g].class = "FiniteGenerator"

\* The conditions on a table other than the one on the sum of probabilities.
WellFormedTable(name, values, probabilities) ==
    /\ name = "finite"
    /\ values # <<>>
    /\ Len(probabilities) = Len(values)
    /\ \A i \in DOMAIN probabilities :
           LessEq(Zero, probabilities[i]) /\ LessEq(probabilities[i], One)

\* |sum of the probabilities - 1|
Deviation(probabilities) == Abs(Sub(SumOf(probabilities), One))

\* The samples an object will return from now on, call by call.
Future(obj, strm) ==
    [k \in (obj.generator + 1)..Len(strm) |->
        Generate([obj EXCEPT !.generator = k - 1], strm[k])]

\* The sum of the entries of p at the indices in I.
RECURSIVE SumAt(_, _)
SumAt(p, I) ==
    IF I = {}
    THEN Zero
    ELSE LET i == CHOOSE x \in I : TRUE IN Add(p[i], SumAt(p, I \ {i}))

\* The measure of the set of uniform variates u in [0, 1] on which the finite
\* generator self returns an element at an index in I.  Generate compares u
\* with the entries of probs only, by > and <=, so its result is the same on
\* all of (a, b] for consecutive points a < b of B; the single point 0 has
\* measure 0.
RECURSIVE MeasureOver(_, _, _, _)
MeasureOver(self, I, B, rest) ==
    IF rest = {}
    THEN Zero
    ELSE LET b == CHOOSE x \in rest : TRUE
             a == CHOOSE x \in B :
                      Less(x, b) /\ \A y \in B : Less(y, b) => LessEq(y, x)
         IN  Add(IF FiniteScan(self, b, 1) \in I THEN Sub(b, a) ELSE Zero,
                 MeasureOver(self, I, B, rest \ {b}))

Measure(self, I) ==
    LET B == {Zero, One} \cup {c \in Range(self.probs) : InUnitInterval(c)}
    IN  MeasureOver(self, I, B, B \ {Zero})

\* The indices at which the vector v holds x.
IndicesOf(v, x) == {i \in DOMAIN v : v[i] = x}

(***************************************************************************)
(* C1: createGenerator(name, values, probabilities) returns a generator    *)
(* if and only if name is "finite", values is non-empty, probabilities is  *)
(* as long as values, every probability is in [0, 1] and the sum of the    *)
(* probabilities is within 1e-9 of 1; otherwise it returns nullptr and     *)
(* constructs nothing.  ("Within" is read as the code reads it, strictly   *)
(* less, when a generator must be returned, and as at most when one may    *)
(* be returned: a difference of exactly 1e-9 is left open.)                *)
(***************************************************************************)
C1_FiniteAcceptance ==
    call.op = "createGeneratorFinite" =>
        LET ok == WellFormedTable(call.name, call.values, call.probabilities)
            dev == Deviation(call.probabilities)
        IN  /\ (ok /\ Less(dev, Eps)) => ret.gen # 0
            /\ ret.gen # 0 => (ok /\ LessEq(dev, Eps))
            /\ ret.gen # 0 =>
                   /\ Len(heap) = 1
                   /\ ret.gen = 1
                   /\ IsFinite(1)
                   /\ heap[1].values = call.values
            /\ ret.gen = 0 => heap = <<>>

C1_Witness ==
    /\ call.op = "createGeneratorFinite"
    /\ ret.gen = 1
    /\ Len(call.values) = MaxLen
    /\ call.probabilities[1] # call.probabilities[2]

ParamAcceptanceIfReturned ==
    (call.op = "createGenerator" /\ status = "running") =>
        LET accepted ==
                \/ call.name = "poisson"
                \/ /\ call.name \in {"bernoulli", "geometric"}
                   /\ LessEq(Zero, call.param)
                   /\ LessEq(call.param, One)
        IN  ret.gen # 0 <=> accepted

\* The undefined case is reached only by "poisson" with a parameter <= 0.
AbortOnlyOnPoissonPrecondition ==
    status = "aborted" =>
        /\ call.op = "createGenerator"
        /\ call.name = "poisson"
        /\ LessEq(call.param, Zero)

(***************************************************************************)
(* C3: for every accepted table the finite generator returns values[i]     *)
(* with probability probabilities[i]: the set of uniform variates on which *)
(* Generate returns a given value has as its measure the sum of the        *)
(* probabilities of the entries holding that value (up to the tolerance    *)
(* 1e-9 the factory allows the table itself).                              *)
(***************************************************************************)
C3_FiniteDistribution ==
    \A g \in 1..Len(heap) :
        IsFinite(g) =>
            \A x \in Range(heap[g].values) :
                LET I == IndicesOf(heap[g].values, x)
                IN  LessEq(Abs(Sub(Measure(heap[g], I),
                                   SumAt(made[g].probabilities, I))),
                           Eps)

\* What the code does instead: the entry at index i < n is returned with the
\* probability of the entry after it, and the last entry with the
\* probability of the first (0-based: values[i] on (cum[i], cum[i+1]]).
FiniteDistributionShifted ==
    \A g \in 1..Len(heap) :
        IsFinite(g) =>
            LET n == Len(heap[g].values)
                p == made[g].probabilities
                q == [i \in 1..n |-> IF i < n THEN p[i + 1] ELSE p[1]]
            IN  \A x \in Range(heap[g].values) :
                    LET I == IndicesOf(heap[g].values, x)
                    IN  LessEq(Abs(Sub(Measure(heap[g], I), SumAt(q, I))),
                               Eps)

(***************************************************************************)
(* C4: every sample a finite generator returns, in any sequence of         *)
(* Generate calls and for every uniform variate, is an element of the      *)
(* values sequence that was passed to createGenerator.                     *)
(***************************************************************************)
C4_SampleInValues ==
    \A g \in 1..Len(heap) :
        IsFinite(g) =>
            \A k \in DOMAIN outs[g] : outs[g][k] \in Range(made[g].values)

C4_Witness ==
    \E g \in 1..Len(heap) :
        /\ IsFinite(g)
        /\ Len(outs[g]) >= 2
        /\ outs[g][1] # outs[g][2]
        /\ stream[1] = Zero

(***************************************************************************)
(* C5: createGenerator("geometric", p) with 0 <= p <= 1 returns a          *)
(* Bernoulli generator with parameter p: every sample is 0 or 1, it is 1   *)
(* exactly when the uniform variate is below p (an event of probability    *)
(* p), and the factory never constructs a GeometricGenerator.              *)
(***************************************************************************)
C5_GeometricIsBernoulli ==
    \A g \in 1..Len(heap) :
        /\ heap[g].class # "GeometricGenerator"
        /\ made[g].name = "geometric" =>
               /\ heap[g].class = "BernoulliGenerator"
               /\ heap[g].distribution.p = made[g].param
               /\ \A k \in DOMAIN outs[g] :
                      /\ outs[g][k] \in {Zero, One}
                      /\ outs[g][k] = One <=> Less(stream[k], made[g].param)

C5_Witness ==
    \E g \in 1..Len(heap) :
        /\ made[g].name = "geometric"
        /\ Zero \in Range(outs[g])
        /\ One \in Range(outs[g])

(***************************************************************************)
(* C6: for a table that meets every other condition, the factory rejects   *)
(* it when the sum of the probabilities differs from 1 by more than 1e-9   *)
(* (2e-9 in particular) and accepts it when the sum differs from 1 by less *)
(* than 1e-9 (5e-10 in particular), above or below 1.                      *)
(***************************************************************************)
C6_ToleranceBoundary ==
    (/\ call.op = "createGeneratorFinite"
     /\ WellFormedTable(call.name, call.values, call.probabilities)) =>
        LET dev == Deviation(call.probabilities)
        IN  /\ Less(Eps, dev) => ret.gen = 0
            /\ dev = Real(0, 4) => ret.gen = 0
            /\ Less(dev, Eps) => ret.gen # 0
            /\ dev = Real(0, 1) => ret.gen # 0

C6_Witness ==
    /\ call.op = "createGeneratorFinite"
    /\ WellFormedTable(call.name, call.values, call.probabilities)
    /\ Sub(SumOf(call.probabilities), One) = Real(0, 4)
    /\ ret.gen = 0

(***************************************************************************)
(* C7: FiniteGenerator::Generate returns values[i] for the first index i   *)
(* in 0 .. n-2 with cumulative[i] < u <= cumulative[i+1], and the last     *)
(* value when there is none; every u with 0 <= u <= cumulative[0], u = 0   *)
(* included, gets the last value.  (Indices from 1 here.)                  *)
(***************************************************************************)
C7_ScanSemantics ==
    (call.op = "Generate" /\ IsFinite(call.gen)) =>
        LET values == made[call.gen].values
            p == made[call.gen].probabilities
            n == Len(values)
            u == call.u
            M == {i \in 1..(n - 1) :
                     Less(Cumulative(p, i), u) /\ LessEq(u, Cumulative(p, i + 1))}
        IN  /\ M # {} =>
                   ret.sample = values[CHOOSE i \in M : \A j \in M : i <= j]
            /\ M = {} => ret.sample = values[n]
            /\ LessEq(u, Cumulative(p, 1)) => ret.sample = values[n]
            /\ u = Zero => ret.sample = values[n]

C7_Witness ==
    /\ call.op = "Generate"
    /\ IsFinite(call.gen)
    /\ Less(Zero, call.u)
    /\ LessEq(call.u, made[call.gen].probabilities[1])
    /\ Len(made[call.gen].values) >= 2
    /\ made[call.gen].values[1] # made[call.gen].values[Len(made[call.gen].values)]
    /\ ret.sample = made[call.gen].values[Len(made[call.gen].values)]

(***************************************************************************)
(* C8: in every finite generator the factory produced, at construction     *)
(* and after Generate calls, values and the cumulative table have the      *)
(* same length n >= 1, cumulative[k] is the sum of the original            *)
(* probabilities[0..k], the table is non-decreasing, and its last entry    *)
(* is within 1e-9 of 1.                                                    *)
(***************************************************************************)
C8_CumulativeTable ==
    \A g \in 1..Len(heap) :
        IsFinite(g) =>
            LET n == Len(heap[g].probs)
                cum == heap[g].probs
            IN  /\ n >= 1
                /\ Len(heap[g].values) = n
                /\ heap[g].values = made[g].values
                /\ \A k \in 1..n : cum[k] = Cumulative(made[g].probabilities, k)
                /\ \A k \in 1..(n - 1) : LessEq(cum[k], cum[k + 1])
                /\ LessEq(Abs(Sub(cum[n], One)), Eps)

C8_Witness ==
    \E g \in 1..Len(heap) :
        /\ IsFinite(g)
        /\ outs[g] # <<>>
        /\ Len(heap[g].probs) = MaxLen
        /\ heap[g].probs[MaxLen] # One
        /\ heap[g].probs[1] # made[g].probabilities[MaxLen]

(***************************************************************************)
(* C9: a Generate call on one object changes only that object's engine     *)
(* state: the object's parameters stay as they are, and so do the engine   *)
(* state, the parameters and all future samples of every other object;     *)
(* a createGenerator call changes no object that exists.                   *)
(***************************************************************************)
C9_GenerateFrame ==
    [][/\ Len(heap') >= Len(heap)
       /\ made' \in {made} \cup {Append(made, call')}
       /\ stream' = stream
       /\ \A g \in 1..Len(heap) :
              IF call'.op = "Generate" /\ call'.gen = g
              THEN /\ [heap'[g] EXCEPT !.generator = 0]
                          = [heap[g] EXCEPT !.generator = 0]
                   /\ heap'[g].generator = heap[g].generator + 1
              ELSE /\ heap'[g] = heap[g]
                   /\ outs'[g] = outs[g]
                   /\ Future(heap'[g], stream') = Future(heap[g], stream)]_vars

C9_Witness ==
    /\ Len(heap) >= 2
    /\ call.op = "Generate"
    /\ \A g \in 1..Len(heap) : outs[g] # <<>>
    /\ heap[1].class # heap[2].class

(***************************************************************************)
(* C10: every engine is default-constructed, so two generators created     *)
(* with identical arguments return identical sample sequences: the k-th    *)
(* sample of one equals the k-th sample of the other, however the calls    *)
(* on the two are interleaved.                                             *)
(***************************************************************************)
C10_SameArgumentsSameSamples ==
    \A g, h \in 1..Len(heap) :
        made[g] = made[h] =>
            \A k \in DOMAIN outs[g] \cap DOMAIN outs[h] : outs[g][k] = outs[h][k]

C10_Witness ==
    \E g, h \in 1..Len(heap) :
        /\ g # h
        /\ made[g] = made[h]
        /\ Len(outs[g]) >= 2
        /\ Len(outs[h]) >= 2
        /\ outs[g][1] # outs[g][2]

====
